---- MODULE Spec2Model ----
(***************************************************************************)
(* Model of the esm-compiler crate: SWC::parse, SWC::transform (the chain  *)
(* of passes, code generation, dependency pruning) and the ResolveFold     *)
(* visitor that rewrites import/export specifiers.                         *)
(*                                                                         *)
(* Strings are sequences of one-character strings, so that quoting and     *)
(* substring search are computed rather than assumed.                      *)
(***************************************************************************)
EXTENDS Naturals, Sequences, FiniteSets, TLC

VARIABLES
    pc,                  \* position inside parse / transform
    given_type,          \* parse(): the source_type argument ("None" when absent)
    path_type,           \* parse(): SourceType::from(Path::new(specifier))
    source_type,         \* SWC.source_type
    syntax,              \* the Syntax handed to the lexer by parse()
    is_dev,              \* EmitOptions.is_dev
    specifier_is_remote, \* Resolver.specifier_is_remote
    fault,               \* the step that panics for this input ("none": no step does)
    unresolvable,        \* raw specifiers on which Resolver::resolve fails
    module,              \* SWC.module, the parsed tree (never mutated)
    program,             \* the tree travelling through the chain of passes
    item,                \* fold_module_items: number of items already pushed
    ran,                 \* the steps that have run, in order
    deps,                \* Resolver.deps, the dependency ledger
    star_exports,        \* Resolver.star_exports
    calls,               \* every Resolver::resolve invocation, in order
    code,                \* the text produced by apply_fold
    result               \* what transform() returned ("none": nothing yet)

vars == <<pc, given_type, path_type, source_type, syntax, is_dev,
          specifier_is_remote, fault, unresolvable, module, program, item,
          ran, deps, star_exports, calls, code, result>>

----------------------------------------------------------------------------
(* Bounds *)

\* items of a module of the static-declaration specification
MaxItems == 3
\* nodes of the expression of a module of the tree-walk specification
MaxNodes == 3
\* arguments of one call expression
MaxArgs == 2

----------------------------------------------------------------------------
(* Strings *)

Quote == "\""

RawSpecifiers == {<<"a">>, <<"b">>, <<"c">>}

\* a literal that is already a resolved URL
ResolvedLiteral == <<"/", "c">>

\* str.contains(pat)
Contains(text, pat) ==
    \E i \in 1..(Len(text) + 1) :
        /\ i + Len(pat) - 1 <= Len(text)
        /\ SubSeq(text, i, i + Len(pat) - 1) = pat

to_str_lit(sub_text) == <<Quote>> \o sub_text \o <<Quote>>

----------------------------------------------------------------------------
(* Syntax tree *)

Range(q) == {q[k] : k \in 1..Len(q)}

Str(s) == [kind |-> "Str", value |-> s]
Tpl == [kind |-> "Tpl"]
Fn(b) == [kind |-> "Fn", body |-> b]
Call(c, a) == [kind |-> "Call", callee |-> c, args |-> a]
Arg(sp, e) == [spread |-> sp, expr |-> e]

Ident(sym) == [kind |-> "Ident", sym |-> sym]
Callees == {Ident("import"), Ident("f"), [kind |-> "Super"], [kind |-> "Member"]}

Leaves == {Str(<<"a">>), Str(<<"b">>), Tpl}

\* argument lists of k arguments whose expressions have n nodes altogether,
\* bySize[m] being the expressions of m nodes
RECURSIVE ArgSeqs(_, _, _)
ArgSeqs(bySize, k, n) ==
    IF k = 0 THEN (IF n = 0 THEN {<<>>} ELSE {})
    ELSE UNION {
        LET rests == ArgSeqs(bySize, k - 1, n - m)
        IN  {<<Arg(sp, e)>> \o rest : sp \in BOOLEAN, e \in bySize[m], rest \in rests}
        : m \in 1..n }

\* <<the expressions of 1 node, ..., the expressions of n nodes>>
RECURSIVE ExprsBySize(_)
ExprsBySize(n) ==
    IF n = 0 THEN <<>>
    ELSE LET bySize == ExprsBySize(n - 1)
             args == UNION {ArgSeqs(bySize, k, n - 1) : k \in 0..MaxArgs}
         IN  Append(bySize,
                    (IF n = 1 THEN Leaves ELSE {Fn(body) : body \in bySize[n - 1]})
                    \cup {Call(c, a) : c \in Callees, a \in args})

\* the expressions of at most n nodes
Exprs(n) == UNION Range(ExprsBySize(n))

\* u: whether the imported binding is used as a value in the module
Import(t, s, u) ==
    [kind |-> "Import", type_only |-> t, src |-> s, specifiers |-> <<"x">>, used |-> u]
ExportNamed(t, s) ==
    [kind |-> "ExportNamed", type_only |-> t, src |-> s, specifiers |-> <<"x">>]
ExportAll(s) == [kind |-> "ExportAll", src |-> s]
Stmt(e) == [kind |-> "Stmt", expr |-> e]

----------------------------------------------------------------------------
(* Resolver (crate::resolver): the ledger, the star-export set and resolve() *)

\* the URL resolve() maps a raw specifier to; a resolved URL maps to itself
Resolved(url) == IF Head(url) = "/" THEN url ELSE <<"/">> \o url

\* Resolver::resolve(url, is_dynamic), called while handling module item i.
\* rs is the resolver's state: [deps, calls, failed]; a failure is a panic,
\* after which nothing of the walk executes any more.
resolve(rs, url, is_dynamic, i) ==
    IF rs.failed THEN rs
    ELSE IF url \in unresolvable
    THEN [rs EXCEPT
            !.calls = Append(@, [url |-> url, is_dynamic |-> is_dynamic,
                                 ok |-> FALSE, ret |-> <<>>, item |-> i]),
            !.failed = TRUE]
    ELSE [rs EXCEPT
            !.calls = Append(@, [url |-> url, is_dynamic |-> is_dynamic,
                                 ok |-> TRUE, ret |-> Resolved(url), item |-> i]),
            !.deps = Append(@, [specifier |-> Resolved(url),
                                is_dynamic |-> is_dynamic])]

\* the value the last resolve() call returned
fixed_url(rs) == rs.calls[Len(rs.calls)].ret

----------------------------------------------------------------------------
(* ResolveFold *)

is_call_expr_by_name(call, name) ==
    CASE call.callee.kind = "Super" -> FALSE
      [] call.callee.kind = "Ident" -> call.callee.sym = name
      [] OTHER -> FALSE

new_str(str) == Str(str)

\* the argument list fold_call_expr assigns to a rewritten import() call
rewritten_args(call, url) == <<Arg(FALSE, new_str(url))>>

RECURSIVE fold_expr(_, _, _), fold_call_expr(_, _, _), fold_args(_, _, _)

\* the default Fold methods: the node is rebuilt from its folded children
fold_expr(e, rs, i) ==
    CASE e.kind = "Call" -> fold_call_expr(e, rs, i)
      [] e.kind = "Fn" ->
            LET b == fold_expr(e.body, rs, i)
            IN  [node |-> Fn(b.node), rs |-> b.rs]
      [] OTHER -> [node |-> e, rs |-> rs]

\* the arguments of a call, folded from left to right
fold_args(args, rs, i) ==
    IF args = <<>> THEN [node |-> <<>>, rs |-> rs]
    ELSE LET h == fold_expr(Head(args).expr, rs, i)
             t == fold_args(Tail(args), h.rs, i)
         IN  [node |-> <<Arg(Head(args).spread, h.node)>> \o t.node, rs |-> t.rs]

fold_call_expr(call, rs, i) ==
    LET children(c, r) ==
            LET a == fold_args(c.args, r, i)
            IN  [node |-> [c EXCEPT !.args = a.node], rs |-> a.rs]
    IN  IF is_call_expr_by_name(call, "import")
        THEN IF call.args = <<>> THEN [node |-> call, rs |-> rs]
             ELSE IF Head(call.args).expr.kind # "Str" THEN [node |-> call, rs |-> rs]
             ELSE LET r == resolve(rs, Head(call.args).expr.value, TRUE, i)
                  IN  IF r.failed THEN [node |-> call, rs |-> r]
                      ELSE children([call EXCEPT !.args = rewritten_args(call, fixed_url(r))], r)
        ELSE children(call, rs)

\* faulty variant: type-only declarations are resolved like the others
fold_static_decl_types_resolved(it, rs, i) ==
    LET r == resolve(rs, it.src, FALSE, i)
    IN  [node |-> IF r.failed THEN it ELSE [it EXCEPT !.src = fixed_url(r)], rs |-> r]

\* the Import and ExportNamed arms of fold_module_items
fold_static_decl(it, rs, i) ==
    IF it.type_only THEN [node |-> it, rs |-> rs]
    ELSE LET r == resolve(rs, it.src, FALSE, i)
         IN  [node |-> IF r.failed THEN it ELSE [it EXCEPT !.src = fixed_url(r)],
              rs |-> r]

\* the ExportAll arm of fold_module_items
fold_export_all(it, rs, i) ==
    LET r == resolve(rs, it.src, FALSE, i)
    IN  [node |-> IF r.failed THEN it ELSE [it EXCEPT !.src = fixed_url(r)], rs |-> r]

\* one iteration of the loop of fold_module_items, on item number i
fold_module_item(it, rs, i) ==
    CASE it.kind \in {"Import", "ExportNamed"} -> fold_static_decl(it, rs, i)
      [] it.kind = "ExportAll" -> fold_export_all(it, rs, i)
      [] OTHER ->
            LET e == fold_expr(it.expr, rs, i)
            IN  [node |-> [it EXCEPT !.expr = e.node], rs |-> e.rs]

----------------------------------------------------------------------------
(* SWC::parse *)

SourceTypes == {"JS", "JSX", "TS", "TSX", "Unknown"}

\* the source type parse() stores in the SWC value
parsed_source_type(given, from_path) ==
    IF given = "None" \/ given = "Unknown" THEN from_path ELSE given

get_syntax(st) ==
    CASE st = "JS"  -> [lang |-> "Es", jsx |-> FALSE]
      [] st = "JSX" -> [lang |-> "Es", jsx |-> TRUE]
      [] st = "TS"  -> [lang |-> "Typescript", jsx |-> FALSE]
      [] st = "TSX" -> [lang |-> "Typescript", jsx |-> TRUE]
      [] OTHER      -> [lang |-> "Typescript", jsx |-> TRUE]

----------------------------------------------------------------------------
(* SWC::transform: the gates of the chain *)

is_jsx == source_type \in {"JSX", "TSX"}

\* faulty variant: both strip variants are gated by is_jsx
strip_enabled_same_gate == is_jsx

\* the gate of Optional::new(strip::strip_with_config(..), ..)
strip_enabled == ~is_jsx

\* the gate of Optional::new(strip::strip_with_jsx(..), ..)
strip_with_jsx_enabled == is_jsx

\* faulty variant: fast refresh is gated by the development flag alone
refresh_enabled_everywhere == TRUE

\* the gate of Optional::new(react::refresh(..), ..)
refresh_enabled == ~specifier_is_remote

\* the gate of Optional::new(react::jsx(..), ..)
jsx_enabled == is_jsx

\* the statement react::refresh adds to a module when its `dev` argument is set
RefreshReg == Stmt(Call(Ident("$RefreshReg$"), <<>>))

\* the strip pass with ImportsNotUsedAsValues::Remove: type-only declarations
\* and imports whose bindings are unused leave the tree
RECURSIVE strip(_)
strip(items) ==
    IF items = <<>> THEN <<>>
    ELSE LET it == Head(items)
             gone == \/ it.kind \in {"Import", "ExportNamed"} /\ it.type_only
                     \/ it.kind = "Import" /\ ~it.used
         IN  (IF gone THEN <<>> ELSE <<it>>) \o strip(Tail(items))

----------------------------------------------------------------------------
(* Code generation (apply_fold) *)

RECURSIVE emit_expr(_), emit_args(_)
emit_expr(e) ==
    CASE e.kind = "Str" -> to_str_lit(e.value)
      [] e.kind = "Tpl" -> <<"tpl">>
      [] e.kind = "Fn" -> <<"{">> \o emit_expr(e.body) \o <<"}">>
      [] OTHER ->
            (CASE e.callee.kind = "Ident" -> <<e.callee.sym>>
               [] e.callee.kind = "Super" -> <<"super">>
               [] OTHER -> <<"o", ".", "import">>)
            \o <<"(">> \o emit_args(e.args) \o <<")">>

emit_args(args) ==
    IF args = <<>> THEN <<>>
    ELSE (IF Head(args).spread THEN <<"...">> ELSE <<>>)
         \o emit_expr(Head(args).expr)
         \o (IF Tail(args) = <<>> THEN <<>> ELSE <<",">>)
         \o emit_args(Tail(args))

emit_item(it) ==
    CASE it.kind = "Import" -> <<"import", "x", "from">> \o to_str_lit(it.src)
      [] it.kind = "ExportNamed" -> <<"export", "x", "from">> \o to_str_lit(it.src)
      [] it.kind = "ExportAll" -> <<"export", "*", "from">> \o to_str_lit(it.src)
      [] OTHER -> emit_expr(it.expr)

RECURSIVE emit(_)
emit(items) ==
    IF items = <<>> THEN <<>>
    ELSE emit_item(Head(items)) \o <<";">> \o emit(Tail(items))

----------------------------------------------------------------------------
(* Dependency pruning *)

\* faulty variant: membership in star_exports is not consulted
keeps_without_star(dep, text, stars) == Contains(text, to_str_lit(dep.specifier))

\* the condition under which transform() pushes dep to the new list
keeps(dep, text, stars) ==
    \/ dep.specifier \in stars
    \/ Contains(text, to_str_lit(dep.specifier))

RECURSIVE prune(_, _, _)
prune(ledger, text, stars) ==
    IF ledger = <<>> THEN <<>>
    ELSE (IF keeps(Head(ledger), text, stars) THEN <<Head(ledger)>> ELSE <<>>)
         \o prune(Tail(ledger), text, stars)

----------------------------------------------------------------------------
(* The steps of parse() and transform(), in program order *)

\* faulty variant: the specifier rewriter is chained after the strip passes
StepsRewriterLate ==
    <<"parse", "resolver_with_mark", "decorators", "inject_helpers", "strip",
      "strip_with_jsx", "resolve_fold", "refresh", "jsx", "fixer", "hygiene",
      "codegen", "prune", "done">>

Steps ==
    <<"parse", "resolver_with_mark", "resolve_fold", "decorators",
      "inject_helpers", "strip", "strip_with_jsx", "refresh", "jsx", "fixer",
      "hygiene", "codegen", "prune", "done">>

\* the steps that can fail
Fallible == {Steps[k] : k \in 1..Len(Steps)} \ {"prune", "done"}

\* the step that follows step name
After(name) == Steps[(CHOOSE k \in 1..Len(Steps) : Steps[k] = name) + 1]

NoResult == [returned |-> FALSE, code |-> <<>>, map |-> FALSE]

\* faulty variant: a failed step is swallowed and transform() returns what it has
PanicSwallowed ==
    /\ pc' = "panicked"
    /\ result' = [returned |-> TRUE, code |-> code, map |-> is_dev]
    /\ UNCHANGED <<given_type, path_type, source_type, syntax, is_dev,
                   specifier_is_remote, fault, unresolvable, module, program,
                   item, ran, deps, star_exports, calls, code>>

\* an unwrap() fails: the call unwinds and returns nothing
Panic ==
    /\ pc' = "panicked"
    /\ UNCHANGED <<given_type, path_type, source_type, syntax, is_dev,
                   specifier_is_remote, fault, unresolvable, module, program,
                   item, ran, deps, star_exports, calls, code, result>>

\* one pass of the chain: it runs when its gate is open, and then maps the
\* program to tree; control moves to the next pass either way
Pass(name, enabled, tree) ==
    /\ pc = name
    /\ IF enabled /\ fault = name THEN Panic
       ELSE /\ pc' = After(name)
            /\ ran' = IF enabled THEN Append(ran, name) ELSE ran
            /\ program' = IF enabled THEN tree ELSE program
            /\ UNCHANGED <<given_type, path_type, source_type, syntax, is_dev,
                           specifier_is_remote, fault, unresolvable, module,
                           item, deps, star_exports, calls, code, result>>

Parse ==
    /\ pc = "parse"
    /\ IF fault = "parse" THEN Panic
       ELSE /\ source_type' = parsed_source_type(given_type, path_type)
            /\ syntax' = get_syntax(source_type')
            /\ program' = module
            /\ pc' = After("parse")
            /\ ran' = Append(ran, "parse")
            /\ UNCHANGED <<given_type, path_type, is_dev, specifier_is_remote,
                           fault, unresolvable, module, item, deps,
                           star_exports, calls, code, result>>

ResolverWithMark == Pass("resolver_with_mark", TRUE, program)

\* fold_module_items: one iteration of its loop per step, then the return
ResolveFold ==
    /\ pc = "resolve_fold"
    /\ IF fault = "resolve_fold" THEN Panic
       ELSE IF item = Len(program)
       THEN /\ pc' = After("resolve_fold")
            /\ ran' = Append(ran, "resolve_fold")
            /\ UNCHANGED <<given_type, path_type, source_type, syntax, is_dev,
                           specifier_is_remote, fault, unresolvable, module,
                           program, item, deps, star_exports, calls, code, result>>
       ELSE LET r == fold_module_item(program[item + 1],
                         [deps |-> deps, calls |-> calls, failed |-> FALSE],
                         item + 1)
            IN  /\ deps' = r.rs.deps
                /\ calls' = r.rs.calls
                /\ IF r.rs.failed
                   THEN pc' = "panicked" /\ UNCHANGED <<program, item>>
                   ELSE /\ program' = [program EXCEPT ![item + 1] = r.node]
                        /\ item' = item + 1
                        /\ pc' = pc
                /\ UNCHANGED <<given_type, path_type, source_type, syntax,
                               is_dev, specifier_is_remote, fault, unresolvable,
                               module, ran, star_exports, code, result>>

Decorators == Pass("decorators", TRUE, program)

InjectHelpers == Pass("inject_helpers", TRUE, program)

Strip == Pass("strip", strip_enabled, strip(program))

StripWithJsx == Pass("strip_with_jsx", strip_with_jsx_enabled, strip(program))

Refresh ==
    Pass("refresh", refresh_enabled,
         IF is_dev THEN Append(program, RefreshReg) ELSE program)

Jsx == Pass("jsx", jsx_enabled, program)

Fixer == Pass("fixer", TRUE, program)

Hygiene == Pass("hygiene", TRUE, program)

\* the emitter of apply_fold, and the unwrap() of its result in transform()
Codegen ==
    /\ pc = "codegen"
    /\ IF fault = "codegen" THEN Panic
       ELSE /\ code' = emit(program)
            /\ pc' = After("codegen")
            /\ ran' = Append(ran, "codegen")
            /\ UNCHANGED <<given_type, path_type, source_type, syntax, is_dev,
                           specifier_is_remote, fault, unresolvable, module,
                           program, item, deps, star_exports, calls, result>>

\* the end of transform(): the ledger is replaced and Ok((code, map)) returned
Prune ==
    /\ pc = "prune"
    /\ deps' = prune(deps, code, star_exports)
    /\ result' = [returned |-> TRUE, code |-> code, map |-> is_dev]
    /\ pc' = After("prune")
    /\ ran' = Append(ran, "prune")
    /\ UNCHANGED <<given_type, path_type, source_type, syntax, is_dev,
                   specifier_is_remote, fault, unresolvable, module, program,
                   item, star_exports, calls, code>>

Next ==
    \/ Parse
    \/ ResolverWithMark
    \/ ResolveFold
    \/ Decorators
    \/ InjectHelpers
    \/ Strip
    \/ StripWithJsx
    \/ Refresh
    \/ Jsx
    \/ Fixer
    \/ Hygiene
    \/ Codegen
    \/ Prune

----------------------------------------------------------------------------
(* Inputs *)

\* sequences over S of length at most n
RECURSIVE SeqsUpTo(_, _)
SeqsUpTo(S, n) ==
    IF n = 0 THEN {<<>>}
    ELSE LET shorter == SeqsUpTo(S, n - 1)
         IN  shorter \cup {Append(q, x) : q \in shorter, x \in S}

StaticItems ==
    { Import(TRUE, <<"a">>, TRUE), Import(FALSE, <<"a">>, TRUE),
      Import(FALSE, <<"b">>, FALSE), Import(FALSE, <<"c">>, FALSE),
      ExportNamed(TRUE, <<"a">>), ExportNamed(FALSE, <<"a">>),
      ExportAll(<<"b">>),
      Stmt(Str(ResolvedLiteral)),
      Stmt(Call(Ident("import"), <<Arg(FALSE, Str(<<"b">>))>>)) }

StaticModules == SeqsUpTo(StaticItems, MaxItems)

WalkModules(n) == {<<Stmt(e)>> : e \in Exprs(n)}

SampleModules ==
    { <<>>,
      <<Import(FALSE, <<"a">>, TRUE)>>,
      <<Import(FALSE, <<"a">>, FALSE), ExportAll(<<"b">>),
        Stmt(Fn(Call(Ident("import"), <<Arg(FALSE, Str(<<"a">>))>>)))>>,
      <<Stmt(Call(Ident("import"), <<Arg(FALSE, Str(<<"a">>))>>)), ExportNamed(FALSE, <<"b">>)>> }

Start ==
    /\ pc = Steps[1]
    /\ source_type = "unset"
    /\ syntax = [lang |-> "unset", jsx |-> FALSE]
    /\ program = <<>>
    /\ item = 0
    /\ ran = <<>>
    /\ deps = <<>>
    /\ calls = <<>>
    /\ code = <<>>
    /\ result = NoResult

\* every configuration, every failing step, a few modules
Init ==
    /\ Start
    /\ given_type \in SourceTypes \cup {"None"}
    /\ path_type \in SourceTypes
    /\ is_dev \in BOOLEAN
    /\ specifier_is_remote \in BOOLEAN
    /\ fault \in Fallible \cup {"none"}
    /\ unresolvable \in {{}, {<<"b">>}}
    /\ fault = "none" \/ unresolvable = {}
    /\ module \in SampleModules
    /\ star_exports = {}

\* one configuration, every module of static declarations; star_exports is a
\* public field of the Resolver the caller hands to transform(), which no
\* code of the fold writes: its content is the caller's
InitStatic ==
    /\ Start
    /\ given_type = "None"
    /\ path_type = "TS"
    /\ is_dev = FALSE
    /\ specifier_is_remote = FALSE
    /\ fault = "none"
    /\ unresolvable = {}
    /\ star_exports \in {{}, {<<"/", "b">>}}
    /\ module \in StaticModules

\* one configuration, every module of one expression statement
InitWalk ==
    /\ Start
    /\ given_type = "None"
    /\ path_type = "JS"
    /\ is_dev = FALSE
    /\ specifier_is_remote = FALSE
    /\ fault = "none"
    /\ unresolvable = {}
    /\ star_exports = {}
    /\ module \in WalkModules(MaxNodes)

Spec == Init /\ [][Next]_vars

SpecStatic == InitStatic /\ [][Next]_vars

SpecWalk == InitWalk /\ [][Next]_vars

----------------------------------------------------------------------------
(* Vocabulary of the properties *)

\* the ledger as resolve() built it: one entry per call, in call order
Ledger ==
    [k \in 1..Len(calls) |->
        [specifier |-> calls[k].ret, is_dynamic |-> calls[k].is_dynamic]]

\* text holds specifier s between two double quotes
OccursQuoted(text, s) ==
    \E i \in 1..Len(text) : \E j \in i..Len(text) :
        SubSeq(text, i, j) = <<"\"">> \o s \o <<"\"">>

\* the resolve() calls made while module item i was handled
CallsOf(i) == {k \in 1..Len(calls) : calls[k].item = i}

\* the rewriter has returned and no later pass has touched the tree yet
Rewritten == pc = "decorators"

IsStatic(it) == it.kind \in {"Import", "ExportNamed", "ExportAll"}

TypeOnly(it) == it.kind \in {"Import", "ExportNamed"} /\ it.type_only

Place(name) ==
    CASE name = "parse" -> 0
      [] name = "resolver_with_mark" -> 1
      [] name = "resolve_fold" -> 2
      [] name = "decorators" -> 3
      [] name = "inject_helpers" -> 4
      [] name \in {"strip", "strip_with_jsx"} -> 5
      [] name = "refresh" -> 6
      [] name = "jsx" -> 7
      [] name = "fixer" -> 8
      [] name = "hygiene" -> 9
      [] name = "codegen" -> 10
      [] OTHER -> 11

PastStrip == {"refresh", "jsx", "fixer", "hygiene", "codegen", "prune", "done"}

PastJsx == {"fixer", "hygiene", "codegen", "prune", "done"}

JsxKind == source_type \in {"JSX", "TSX"}

----------------------------------------------------------------------------
(* C1 *)

\* C1: when transform() has returned, the resolver's dependency list holds
\* exactly the ledger entries whose specifier is in the star-export set or
\* occurs between double quotes in the emitted text, in ledger order; all
\* others are dropped, none is added, an empty ledger gives an empty list.
PrunedDepsAreTheLiveLedgerEntries ==
    pc = "done" =>
        LET live == {k \in 1..Len(Ledger) :
                        \/ Ledger[k].specifier \in star_exports
                        \/ OccursQuoted(result.code, Ledger[k].specifier)}
            rank(k) == Cardinality({j \in live : j <= k})
        IN  /\ Len(deps) = Cardinality(live)
            /\ \A k \in live : deps[rank(k)] = Ledger[k]

\* A occurs in the text, B is absent and not star-exported, C is absent and
\* star-exported: the list returned is A, C
PrunedDepsWitness ==
    /\ pc = "done"
    /\ Len(Ledger) = 3
    /\ OccursQuoted(result.code, Ledger[1].specifier)
    /\ ~OccursQuoted(result.code, Ledger[2].specifier)
    /\ Ledger[2].specifier \notin star_exports
    /\ ~OccursQuoted(result.code, Ledger[3].specifier)
    /\ Ledger[3].specifier \in star_exports
    /\ deps = <<Ledger[1], Ledger[3]>>

----------------------------------------------------------------------------
(* C2 *)

\* C2: once fold_module_items has handled a static declaration, a type-only
\* one has caused no resolve() call and is unchanged; any other has caused
\* exactly one call, resolve(specifier, false), and differs from the original
\* in its specifier alone, which is the value that call returned.
StaticOccurrencesResolvedOnce ==
    pc = "resolve_fold" \/ Rewritten =>
        \A i \in 1..item :
            IsStatic(module[i]) =>
                IF TypeOnly(module[i])
                THEN CallsOf(i) = {} /\ program[i] = module[i]
                ELSE \E k \in 1..Len(calls) :
                        /\ CallsOf(i) = {k}
                        /\ calls[k].url = module[i].src
                        /\ ~calls[k].is_dynamic
                        /\ program[i] = [module[i] EXCEPT !.src = calls[k].ret]

\* a type-only import, a resolved import and a resolved wildcard re-export in
\* one rewritten module
StaticOccurrencesWitness ==
    /\ Rewritten
    /\ item = 3
    /\ \E i, j, k \in 1..3 :
        /\ module[i].kind = "Import" /\ module[i].type_only
        /\ module[j].kind = "ExportNamed" /\ ~module[j].type_only
        /\ program[j].src # module[j].src
        /\ module[k].kind = "ExportAll"
        /\ program[k].src # module[k].src

----------------------------------------------------------------------------
(* C3 *)

\* C3: a statement that is a call of the identifier `import` with a string
\* literal as first argument ends with exactly one argument, the literal
\* resolve(literal, true) returned; with any other argument shape (none, a
\* computed expression, a template literal, a spread element) it is unchanged
\* and no resolve() call is made.
DynamicImportRewrittenIffLiteral ==
    Rewritten /\ module[1].kind = "Stmt" =>
        LET e == module[1].expr
            out == program[1].expr
        IN  e.kind = "Call" /\ e.callee = Ident("import") =>
                IF e.args # <<>> /\ ~e.args[1].spread /\ e.args[1].expr.kind = "Str"
                THEN /\ Len(calls) = 1
                     /\ calls[1].url = e.args[1].expr.value
                     /\ calls[1].is_dynamic
                     /\ out.args = <<Arg(FALSE, Str(calls[1].ret))>>
                ELSE out = e /\ calls = <<>>

----------------------------------------------------------------------------
(* C4 *)

\* C4: once the rewriter has handled `export * from "spec"`, the resolved
\* specifier is in the star-export set, and the dependency for it is in the
\* list transform() leaves behind.
WildcardReExportRegistered ==
    /\ pc = "resolve_fold" \/ Rewritten =>
        \A i \in 1..item :
            module[i].kind = "ExportAll" => program[i].src \in star_exports
    /\ pc = "done" =>
        \A k \in 1..Len(calls) :
            module[calls[k].item].kind = "ExportAll" =>
                \E d \in 1..Len(deps) : deps[d].specifier = calls[k].ret

----------------------------------------------------------------------------
(* C5 *)

\* C5: a failure is fatal and leaves no partial result: only the last
\* resolve() call can be a failed one, after a failure no item from the
\* failing one on is rewritten, nothing is returned and the ledger is still
\* the unpruned one; and transform() returns only if no call and no step
\* that ran has failed.
FailureLeavesNoPartialResult ==
    /\ \A k \in 1..Len(calls) : ~calls[k].ok => k = Len(calls) /\ pc = "panicked"
    /\ pc = "panicked" =>
        /\ result = NoResult
        /\ deps = SelectSeq(Ledger, LAMBDA d : d.specifier # <<>>)
        /\ \A k \in 1..Len(calls) : ~calls[k].ok =>
                \A j \in calls[k].item..Len(module) : program[j] = module[j]
    /\ result.returned =>
        /\ pc = "done"
        /\ fault \notin Range(ran)
        /\ \A k \in 1..Len(calls) : calls[k].ok

\* resolve() has failed on the second of three occurrences
FailureWitness ==
    /\ pc = "panicked"
    /\ Len(calls) = 2
    /\ ~calls[2].ok
    /\ calls[2].item < Len(module)
    /\ Len(deps) = 1

----------------------------------------------------------------------------
(* C6 *)

\* C6: the steps that run do so in the order scope resolution, specifier
\* rewriter, decorators, helper injection, type stripping, fast refresh, JSX
\* lowering, fix-up, hygiene, code generation, pruning; the rewriter sees
\* every item of the parsed module; fix-up and hygiene are the two steps
\* before code generation; pruning follows code generation.
StagesRunInFixedOrder ==
    /\ \A j, k \in 1..Len(ran) : j < k => Place(ran[j]) < Place(ran[k])
    /\ "resolve_fold" \in Range(ran) => item = Len(module)
    /\ \A k \in 1..Len(ran) :
        /\ ran[k] = "codegen" =>
            /\ k > 2 /\ ran[k - 2] = "fixer" /\ ran[k - 1] = "hygiene"
            /\ {"resolver_with_mark", "resolve_fold", "decorators",
                "inject_helpers"} \subseteq Range(ran)
        /\ ran[k] = "prune" => k > 1 /\ ran[k - 1] = "codegen"
    /\ result.returned => "prune" \in Range(ran)

\* a compile in which every gate was open has returned, after an import was
\* rewritten and then removed by the strip pass
StagesWitness ==
    /\ pc = "done"
    /\ Len(ran) = 12
    /\ Len(calls) = 3
    /\ Len(program) < Len(module) + 1

----------------------------------------------------------------------------
(* C7 *)

\* C7: once the two strip gates have been passed, exactly one strip variant
\* has run: the JSX-aware one for a JSX or TSX module, the plain one
\* otherwise; and once the JSX gate has been passed, JSX lowering has run if
\* and only if the module is JSX or TSX.
ExactlyOneStripVariant ==
    /\ pc \in PastStrip =>
        /\ Cardinality({k \in 1..Len(ran) : ran[k] \in {"strip", "strip_with_jsx"}}) = 1
        /\ "strip_with_jsx" \in Range(ran) <=> JsxKind
        /\ "strip" \in Range(ran) <=> ~JsxKind
    /\ pc \in PastJsx => ("jsx" \in Range(ran) <=> JsxKind)

\* a TSX module has been compiled
StripVariantWitness ==
    /\ pc = "done"
    /\ source_type = "TSX"
    /\ "strip_with_jsx" \in Range(ran)
    /\ "jsx" \in Range(ran)

----------------------------------------------------------------------------
(* C8 *)

\* C8: a module whose source type is still Unknown after parse() is parsed
\* with the TSX-capable syntax and stripped by the JSX-aware strip variant.
UnknownKindUsesJsxCapablePath ==
    source_type = "Unknown" =>
        /\ pc # "parse" => syntax = [lang |-> "Typescript", jsx |-> TRUE]
        /\ pc \in PastStrip => "strip_with_jsx" \in Range(ran)

----------------------------------------------------------------------------
(* C9 *)

\* C9: once the refresh gate has been passed, the module carries refresh
\* instrumentation if and only if is_dev is set and the module's specifier is
\* not remote; the same holds of the text transform() returns.
RefreshOnlyForLocalDev ==
    /\ pc \in {"jsx"} \cup PastJsx =>
        (RefreshReg \in Range(program) <=> is_dev /\ ~specifier_is_remote)
    /\ result.returned =>
        ("$RefreshReg$" \in Range(result.code) <=> is_dev /\ ~specifier_is_remote)

\* a local module compiled in development mode is returned instrumented
RefreshWitness ==
    /\ pc = "done"
    /\ is_dev
    /\ ~specifier_is_remote
    /\ "$RefreshReg$" \in Range(result.code)

----------------------------------------------------------------------------
(* C10 *)

\* the import() calls with a literal first argument that a walk reaching
\* every node of e rewrites (the further arguments of a rewritten call are
\* discarded with the call's old argument list)
RECURSIVE LiteralImports(_), LiteralImportsIn(_)
LiteralImports(e) ==
    CASE e.kind = "Fn" -> LiteralImports(e.body)
      [] e.kind = "Call" ->
            IF /\ e.callee = Ident("import")
               /\ e.args # <<>>
               /\ e.args[1].expr.kind = "Str"
            THEN 1
            ELSE LiteralImportsIn(e.args)
      [] OTHER -> 0

LiteralImportsIn(args) ==
    IF args = <<>> THEN 0
    ELSE LiteralImports(Head(args).expr) + LiteralImportsIn(Tail(args))

\* C10: every import() call with a literal first argument is resolved exactly
\* once wherever it stands in the tree: in a function body, in the arguments
\* of another call, in the arguments of an import() call that is itself left
\* untouched.
EveryLiteralImportResolved ==
    Rewritten /\ module[1].kind = "Stmt" =>
        /\ Len(calls) = LiteralImports(module[1].expr)
        /\ LiteralImports(program[1].expr) = Len(calls)
        /\ \A k \in 1..Len(calls) : calls[k].is_dynamic

====
